---- MODULE Spec2Model ----
(***************************************************************************)
(* The lgRackandStack workflow of src/agent/graph.py: the State record, the *)
(* five nodes of the compiled graph (extract_input, pull_data, push_data,   *)
(* push_doc, summary), pull_doc_node, which is commented out of the graph   *)
(* and is called on its own, and the async adapter helpers, as a state      *)
(* machine.                                                                 *)
(***************************************************************************)
EXTENDS Integers, Sequences, FiniteSets, TLC

VARIABLES
    state,      \* the State instance threaded through the nodes
    pc,         \* the node the engine runs next ("__end__" when the run is over)
    env,        \* the set of environment variables that are set (non-empty)
    trace,      \* the nodes executed so far, in order
    calls,      \* the adapter invocations made so far, in order
    pre,        \* the State on entry to the node executed last
    frame       \* the locals of a node that is suspended in its loop of awaits

vars == <<state, pc, env, trace, calls, pre, frame>>

(***************************************************************************)
(* Python values.  A JSON / Python value is a record with a type tag t:     *)
(* "str" (s), "int" (n), "bool" (n = 1 for True), "none", "list" (a: the    *)
(* items) and "dict" (o: the items [k, v] in insertion order).              *)
(***************************************************************************)
JStr(s) == [t |-> "str", s |-> s, n |-> 0, a |-> <<>>, o |-> <<>>]
JInt(n) == [t |-> "int", s |-> "", n |-> n, a |-> <<>>, o |-> <<>>]
JBool(b) == [t |-> "bool", s |-> "", n |-> IF b THEN 1 ELSE 0, a |-> <<>>, o |-> <<>>]
JNull == [t |-> "none", s |-> "", n |-> 0, a |-> <<>>, o |-> <<>>]
JArr(items) == [t |-> "list", s |-> "", n |-> 0, a |-> items, o |-> <<>>]
JObj(items) == [t |-> "dict", s |-> "", n |-> 0, a |-> <<>>, o |-> items]
KV(k, v) == [k |-> k, v |-> v]

\* A Python dict with string keys and plain values is a function on its keys.
EmptyDict == [k \in {} |-> ""]
DictGet(d, k, default) == IF k \in DOMAIN d THEN d[k] ELSE default

\* bool(v)
Truthy(v) ==
    CASE v.t = "str" -> v.s # ""
      [] v.t = "int" -> v.n # 0
      [] v.t = "bool" -> v.n = 1
      [] v.t = "none" -> FALSE
      [] v.t = "list" -> Len(v.a) > 0
      [] v.t = "dict" -> Len(v.o) > 0

\* needle in haystack, for two str
IsSubstring(needle, hay) ==
    \E i \in 1..(Len(hay) - Len(needle) + 1) : SubSeq(hay, i, i + Len(needle) - 1) = needle

\* `key in v` raises TypeError unless v is a container
PyInRaises(v) == v.t \notin {"dict", "list", "str"}

\* `key in v` for a str key
PyIn(key, v) ==
    CASE v.t = "dict" -> \E i \in 1..Len(v.o) : v.o[i].k = key
      [] v.t = "list" -> \E i \in 1..Len(v.a) : v.a[i] = JStr(key)
      [] v.t = "str" -> IsSubstring(key, v.s)
      [] OTHER -> FALSE

\* `v[key]` for a str key raises TypeError on a list or a str, KeyError on a dict without it
PyGetItemRaises(v, key) == v.t # "dict" \/ ~PyIn(key, v)

\* `v[key]` of a dict: the value stored last under key
PyGetItem(v, key) ==
    LET idx == {i \in 1..Len(v.o) : v.o[i].k = key}
        last == CHOOSE i \in idx : \A j \in idx : j <= i
    IN v.o[last].v

\* v.get(key, default) of a dict
PyGet(v, key, default) == IF PyIn(key, v) THEN PyGetItem(v, key) ELSE default

RECURSIVE JoinStr(_, _)
JoinStr(parts, sep) ==
    IF Len(parts) = 0 THEN ""
    ELSE IF Len(parts) = 1 THEN parts[1]
    ELSE parts[1] \o sep \o JoinStr(Tail(parts), sep)

\* repr(v) of a scalar: a str in single quotes
PyReprScalar(v) ==
    CASE v.t = "str" -> "'" \o v.s \o "'"
      [] v.t = "int" -> ToString(v.n)
      [] v.t = "bool" -> IF v.n = 1 THEN "True" ELSE "False"
      [] v.t = "none" -> "None"
      [] OTHER -> "?"

\* str(v): a str is itself, True / False / None are capitalised, a list or a
\* dict is rendered with repr of its items
PyStr(v) ==
    CASE v.t = "str" -> v.s
      [] v.t = "list" ->
            "[" \o JoinStr([i \in 1..Len(v.a) |-> PyReprScalar(v.a[i])], ", ") \o "]"
      [] v.t = "dict" ->
            "{" \o JoinStr([i \in 1..Len(v.o) |->
                    "'" \o v.o[i].k \o "': " \o PyReprScalar(v.o[i].v)], ", ") \o "}"
      [] OTHER -> PyReprScalar(v)

DigitChars == <<"0", "1", "2", "3", "4", "5", "6", "7", "8", "9">>

\* s.isdigit(), ASCII digits
IsDigitStr(s) ==
    /\ Len(s) > 0
    /\ \A i \in 1..Len(s) : \E d \in 1..10 : SubSeq(s, i, i) = DigitChars[d]

RECURSIVE StrToInt(_)
\* int(s) of a digit string
StrToInt(s) ==
    IF Len(s) = 0 THEN 0
    ELSE LET c == SubSeq(s, Len(s), Len(s))
             d == CHOOSE k \in 1..10 : DigitChars[k] = c
         IN 10 * StrToInt(SubSeq(s, 1, Len(s) - 1)) + (d - 1)


(***************************************************************************)
(* The strings of the model and json.loads on them.                         *)
(***************************************************************************)
InEmpty == ""
InText == "hello"
InNumber == "5"
InNull == "null"
InStrPlain == "\"abc\""
InStrKey == "\"loan_id\""
InArrPlain == "[953]"
InArrKey == "[\"loan_id\"]"
InObjEmpty == "{}"
InObjScenario == "{\"loan_id\":\"25\",\"client_id\":\"loan_25\",\"document_ids\":\"[953]\"}"
InObjExtra ==
    "{\"loan_id\":\"25\",\"client_id\":\"loan_25\",\"document_ids\":\"[953]\",\"status\":\"Hacked\",\"user_input\":\"evil\"}"
InObjTyped ==
    "{\"loan_id\":25,\"task_id\":\"t1\",\"client_id\":null,\"document_ids\":[953],\"documents_stored\":true,\"documents_processed\":\"p\",\"field_updates\":{\"4000\":\"User\",\"9999\":7}}"
InObjBadUpdates == "{\"task_id\":\"t2\",\"field_updates\":\"notadict\"}"
InObjNoLoan == "{\"loan_id\":\"\",\"client_id\":\"loan_25\",\"document_ids\":\"953\"}"
InObjDocMixed == "{\"loan_id\":\"25\",\"document_ids\":\"[\\\"953\\\",\\\"abc\\\",7]\"}"
InObjDocText == "{\"loan_id\":\"25\",\"document_ids\":\"not json\",\"field_updates\":{\"65\":\"123\"}}"

\* The user_input strings a run is started with, in a fixed order.
InputTable ==
    << InObjScenario, InEmpty, InText, InNumber, InObjExtra, InObjTyped, InStrKey,
       InArrKey, InObjEmpty, InObjBadUpdates, InObjNoLoan, InObjDocMixed, InObjDocText,
       InNull, InStrPlain, InArrPlain >>

\* How many entries of InputTable the runs draw user_input from.
MaxInputs == 15

Inputs == {InputTable[i] : i \in 1..(IF MaxInputs < Len(InputTable) THEN MaxInputs ELSE Len(InputTable))}

\* The document_ids strings extraction can produce from Inputs.
DocIdsScenario == "[953]"
DocIdsNumber == "953"
DocIdsMixed == "[\"953\",\"abc\",7]"
DocIdsText == "not json"
DocIdsThree == "[101, 102, 103]"
DocIdsTwice == "[7, 7]"
DocIdsNone == "[]"
DocIdsObject == "{\"a\":1,\"b\":2}"

\* json.loads(s): [ok |-> FALSE] stands for json.JSONDecodeError
Decoded(v) == [ok |-> TRUE, v |-> v]
DecodeError == [ok |-> FALSE, v |-> JNull]

json_loads(s) ==
    CASE s = InText -> DecodeError
      [] s = DocIdsText -> DecodeError
      [] s = InEmpty -> DecodeError
      [] s = InNumber -> Decoded(JInt(5))
      [] s = DocIdsNumber -> Decoded(JInt(953))
      [] s = InNull -> Decoded(JNull)
      [] s = InStrPlain -> Decoded(JStr("abc"))
      [] s = InStrKey -> Decoded(JStr("loan_id"))
      [] s = InArrPlain -> Decoded(JArr(<<JInt(953)>>))
      [] s = InArrKey -> Decoded(JArr(<<JStr("loan_id")>>))
      [] s = DocIdsThree -> Decoded(JArr(<<JInt(101), JInt(102), JInt(103)>>))
      [] s = DocIdsTwice -> Decoded(JArr(<<JInt(7), JInt(7)>>))
      [] s = DocIdsNone -> Decoded(JArr(<<>>))
      [] s = DocIdsObject -> Decoded(JObj(<< KV("a", JInt(1)), KV("b", JInt(2)) >>))
      [] s = DocIdsMixed -> Decoded(JArr(<<JStr("953"), JStr("abc"), JInt(7)>>))
      [] s = InObjEmpty -> Decoded(JObj(<<>>))
      [] s = InObjScenario ->
            Decoded(JObj(<< KV("loan_id", JStr("25")), KV("client_id", JStr("loan_25")),
                            KV("document_ids", JStr("[953]")) >>))
      [] s = InObjExtra ->
            Decoded(JObj(<< KV("loan_id", JStr("25")), KV("client_id", JStr("loan_25")),
                            KV("document_ids", JStr("[953]")), KV("status", JStr("Hacked")),
                            KV("user_input", JStr("evil")) >>))
      [] s = InObjTyped ->
            Decoded(JObj(<< KV("loan_id", JInt(25)), KV("task_id", JStr("t1")),
                            KV("client_id", JNull), KV("document_ids", JArr(<<JInt(953)>>)),
                            KV("documents_stored", JBool(TRUE)),
                            KV("documents_processed", JStr("p")),
                            KV("field_updates",
                               JObj(<< KV("4000", JStr("User")), KV("9999", JInt(7)) >>)) >>))
      [] s = InObjBadUpdates ->
            Decoded(JObj(<< KV("task_id", JStr("t2")), KV("field_updates", JStr("notadict")) >>))
      [] s = InObjNoLoan ->
            Decoded(JObj(<< KV("loan_id", JStr("")), KV("client_id", JStr("loan_25")),
                            KV("document_ids", JStr("953")) >>))
      [] s = InObjDocMixed ->
            Decoded(JObj(<< KV("loan_id", JStr("25")), KV("document_ids", JStr(DocIdsMixed)) >>))
      [] s = InObjDocText ->
            Decoded(JObj(<< KV("loan_id", JStr("25")), KV("document_ids", JStr(DocIdsText)),
                            KV("field_updates", JObj(<< KV("65", JStr("123")) >>)) >>))

(***************************************************************************)
(* State and the environment.                                               *)
(***************************************************************************)
\* class State: the defaults, with the user_input the run is given
NewState(user_input) ==
    [ user_input |-> user_input,
      current_node |-> 0,
      status |-> "",
      loan_id |-> "",
      task_id |-> "",
      client_id |-> "",
      document_ids |-> "",
      documents_stored |-> "",
      documents_processed |-> "",
      loan_data |-> EmptyDict,
      documents_stored_list |-> <<>>,
      field_updates |-> EmptyDict,
      pull_data_result |-> EmptyDict,
      pull_doc_results |-> <<>>,
      push_data_result |-> EmptyDict,
      push_doc_result |-> EmptyDict,
      workflow_summary |-> EmptyDict ]

required_vars ==
    << "ESFUSE_TOKEN", "LOAN_API_BASE_URL", "DOC_API_BASE_URL", "ENCOMPASS_BASE_URL",
       "ENCOMPASS_ACCESS_TOKEN", "TASKDOC_API_TOKEN", "TASKDOC_AUTH_TOKEN" >>

RequiredSet == {required_vars[i] : i \in 1..Len(required_vars)}

\* The environments of the model: everything set, one key missing, two keys missing.
Envs ==
    { RequiredSet,
      RequiredSet \ {"TASKDOC_AUTH_TOKEN"},
      RequiredSet \ {"ESFUSE_TOKEN", "ENCOMPASS_BASE_URL"} }

\* validate_environment: the missing variables, in the order of required_vars
missing_vars(e) == SelectSeq(required_vars, LAMBDA v : v \notin e)

\* validate_environment raises ValueError exactly when a variable is missing
ValidateRaises(e) == Len(missing_vars(e)) > 0


(***************************************************************************)
(* extract_input_fields                                                     *)
(***************************************************************************)
\* A faulty variant of ExtractKeys: every field of State named in the input is copied.
ExtractKeysCopyAll ==
    << "loan_id", "task_id", "client_id", "document_ids", "documents_stored",
       "documents_processed", "user_input" >>

\* The fields copied with str(), in the order of the if statements.
ExtractKeys ==
    << "loan_id", "task_id", "client_id", "document_ids", "documents_stored",
       "documents_processed" >>

\* The keys extract_input_fields looks up in the decoded input.
RecognizedKeys == {ExtractKeys[i] : i \in 1..Len(ExtractKeys)} \cup {"field_updates"}

\* try: json.loads(user_input) except JSONDecodeError: {}
ParseUserInput(user_input) ==
    LET r == json_loads(user_input) IN IF r.ok THEN r.v ELSE JObj(<<>>)

\* One statement `if key in input_data: state.<key> = str(input_data[key])`.
\* acc = [st, raised]: the state so far, and whether an exception is in flight.
ExtractKey(acc, key, input_data) ==
    IF acc.raised THEN acc
    ELSE IF PyInRaises(input_data) THEN [acc EXCEPT !.raised = TRUE]
    ELSE IF ~PyIn(key, input_data) THEN acc
    ELSE IF PyGetItemRaises(input_data, key) THEN [acc EXCEPT !.raised = TRUE]
    ELSE [acc EXCEPT !.st = [acc.st EXCEPT ![key] = PyStr(PyGetItem(input_data, key))]]

RECURSIVE ExtractKeysFrom(_, _, _)
\* The statements for ExtractKeys[i..], in order.
ExtractKeysFrom(acc, i, input_data) ==
    IF i > Len(ExtractKeys) THEN acc
    ELSE ExtractKeysFrom(ExtractKey(acc, ExtractKeys[i], input_data), i + 1, input_data)

\* {str(k): str(v) for k, v in d.items()}
StrDict(d) ==
    [k \in {d.o[i].k : i \in 1..Len(d.o)} |-> PyStr(PyGetItem(d, k))]

\* if "field_updates" in input_data and isinstance(input_data["field_updates"], dict): ...
ExtractFieldUpdates(acc, input_data) ==
    IF acc.raised THEN acc
    ELSE IF PyInRaises(input_data) THEN [acc EXCEPT !.raised = TRUE]
    ELSE IF ~PyIn("field_updates", input_data) THEN acc
    ELSE IF PyGetItemRaises(input_data, "field_updates") THEN [acc EXCEPT !.raised = TRUE]
    ELSE IF PyGetItem(input_data, "field_updates").t # "dict" THEN acc
    ELSE [acc EXCEPT !.st.field_updates = StrDict(PyGetItem(input_data, "field_updates"))]

\* A faulty variant of ExtractHandler: the handler records the position and not the status.
ExtractHandlerNoStatus(st) == [st EXCEPT !.current_node = 1]

\* A faulty variant of ExtractHandler: the handler counts the position up.
ExtractHandlerCount(st) ==
    [st EXCEPT !.current_node = st.current_node + 1, !.status = "Error"]

\* The handler of extract_input_fields: except Exception.
ExtractHandler(st) == [st EXCEPT !.current_node = 1, !.status = "Error"]

\* The branch for an empty user_input.
ExtractNoInput(st) ==
    [st EXCEPT !.status = "Error",
               !.loan_data = [error |-> "No user_input provided"],
               !.current_node = 1]

extract_input_fields(st, e) ==
    IF ValidateRaises(e) THEN ExtractHandler(st)
    ELSE IF st.user_input = "" THEN ExtractNoInput(st)
    ELSE LET input_data == ParseUserInput(st.user_input)
             copied == ExtractKeysFrom([st |-> st, raised |-> FALSE], 1, input_data)
             done == ExtractFieldUpdates(copied, input_data)
         IN IF done.raised THEN ExtractHandler(done.st)
            ELSE [done.st EXCEPT !.status = "Success", !.current_node = 1]


(***************************************************************************)
(* The HTTP exchanges of the async helpers.  An exchange ends in one of:    *)
(* "json" (status 200, a JSON body), "notjson" (status 200, the body does   *)
(* not decode), "status" (another status code), "exc" (the request raised:  *)
(* transport failure or timeout).                                           *)
(***************************************************************************)
Http(kind, code, body, text) == [kind |-> kind, code |-> code, body |-> body, text |-> text]

Borrower(items) == JObj(items)

\* The JSON bodies the loan API answers with, in a fixed order.  The mapped
\* leaves of these bodies are JSON strings.
LoanBodyTable ==
    << \* a borrower Jane Doe
       JObj(<< KV("loaninfo", JObj(<< KV("borrowers_attributes",
                 JArr(<< Borrower(<< KV("first_name", JStr("Jane")), KV("last_name", JStr("Doe")) >>) >>)) >>)) >>),
       \* an empty object
       JObj(<<>>),
       \* no loaninfo
       JObj(<< KV("clientId", JStr("loan_25")), KV("loanId", JStr("25")) >>),
       \* loaninfo without borrowers and without address
       JObj(<< KV("loaninfo", JObj(<< KV("id", JStr("7")) >>)) >>),
       \* the second borrower is flagged; address block with an empty state
       JObj(<< KV("loaninfo", JObj(<<
                 KV("borrowers_attributes", JArr(<<
                     Borrower(<< KV("first_name", JStr("Co")), KV("email", JStr("co@x.io")),
                                 KV("main_borrower", JBool(FALSE)) >>),
                     Borrower(<< KV("main_borrower", JBool(TRUE)), KV("first_name", JStr("Ann")),
                                 KV("middle_name", JStr("")), KV("ssn", JStr("111-22-3333")),
                                 KV("date_of_birth", JStr("1980-01-02")) >>) >>)),
                 KV("address1", JStr("1 Main St")), KV("city", JStr("Reno")),
                 KV("state", JStr("")), KV("zip_code", JStr("89501")) >>)) >>),
       \* loaninfo is not an object
       JObj(<< KV("loaninfo", JStr("oops")) >>),
       \* no borrower is flagged: first_name and ssn only on the first
       JObj(<< KV("loaninfo", JObj(<<
                 KV("borrowers_attributes", JArr(<<
                     Borrower(<< KV("first_name", JStr("Ann")), KV("ssn", JStr("111-22-3333")) >>),
                     Borrower(<< KV("first_name", JStr("Bob")), KV("last_name", JStr("Zed")),
                                 KV("email", JStr("bob@x.io")) >>) >>)) >>)) >>),
       \* a JSON array holding the string "loaninfo"
       JArr(<< JStr("loaninfo") >>),
       \* JSON null
       JNull,
       \* a borrower list entry that is not an object
       JObj(<< KV("loaninfo", JObj(<< KV("borrowers_attributes", JArr(<< JStr("x") >>)),
                                      KV("state", JStr("NV")) >>)) >>),
       \* the second and the third borrower are flagged
       JObj(<< KV("loaninfo", JObj(<<
                 KV("borrowers_attributes", JArr(<<
                     Borrower(<< KV("first_name", JStr("Al")), KV("email", JStr("al@x.io")) >>),
                     Borrower(<< KV("first_name", JStr("Bea")), KV("last_name", JStr("Bee")),
                                 KV("main_borrower", JBool(TRUE)) >>),
                     Borrower(<< KV("first_name", JStr("Cy")), KV("ssn", JStr("999-00-1111")),
                                 KV("main_borrower", JBool(TRUE)) >>) >>)) >>)) >>),
       \* a borrower list that is a string
       JObj(<< KV("loaninfo", JObj(<< KV("borrowers_attributes", JStr("abc")),
                                      KV("city", JStr("Reno")) >>)) >>) >>

\* How many entries of LoanBodyTable the loan API answers with.
MaxLoanBodies == 11

LoanBodies ==
    {LoanBodyTable[i] : i \in 1..(IF MaxLoanBodies < Len(LoanBodyTable) THEN MaxLoanBodies
                                  ELSE Len(LoanBodyTable))}

LoanResponses ==
    {Http("json", 200, b, "") : b \in LoanBodies}
        \cup {Http("notjson", 200, JNull, "<html>"), Http("status", 404, JNull, "not found"),
              Http("exc", 0, JNull, "timeout")}

\* async_pull_loan_data: the result dict for one exchange (api_url and the
\* "parsed" echo of the arguments are left out: no node reads them)
async_pull_loan_data(client_id, loan_id, resp) ==
    CASE resp.kind = "json" ->
            [success |-> TRUE, raw |-> resp.body, client_id |-> client_id, loan_id |-> loan_id]
      [] resp.kind = "status" ->
            [success |-> FALSE,
             error |-> "API call failed with status " \o ToString(resp.code) \o ": " \o resp.text]
      [] OTHER ->
            [success |-> FALSE, error |-> "API request failed: " \o resp.text]

EncompassResponses ==
    { Http("json", 200, JObj(<< KV("ok", JBool(TRUE)) >>), ""), Http("empty", 200, JNull, ""),
      Http("status", 500, JNull, "boom"), Http("exc", 0, JNull, "timeout") }

\* async_push_data: the result dict for one exchange
async_push_data(field_updates, loan_id, resp) ==
    CASE resp.kind \in {"json", "empty"} ->
            [success |-> TRUE, encompass_loan_guid |-> loan_id,
             fields_updated |-> DOMAIN field_updates,
             response |-> resp.body, status_code |-> resp.code]
      [] resp.kind = "status" ->
            [success |-> FALSE,
             error |-> "Encompass API request failed with status " \o ToString(resp.code),
             response_text |-> resp.text, status_code |-> resp.code]
      [] OTHER ->
            [success |-> FALSE, error |-> "Push data error: " \o resp.text]

\* What doc_agent.ESFuse.push_doc (an external library) can do: return a
\* dict with success True (with or without the docrepo_fields record), a
\* dict with success False and an error, a dict without either key,
\* something that is no dict (None), or raise.
SubmissionOutcomes ==
    { [kind |-> "dict", result |-> [success |-> TRUE, message |-> "created"]],
      [kind |-> "dict",
       result |-> [success |-> TRUE, message |-> "created",
                   docrepo_fields |->
                       JObj(<< KV("taskId", JStr("t1")), KV("loanId", JStr("25")),
                               KV("submission_result",
                                  JObj(<< KV("success", JBool(TRUE)),
                                          KV("status_code", JInt(201)) >>)) >>)]],
      [kind |-> "dict", result |-> [success |-> FALSE, error |-> "rejected"]],
      [kind |-> "dict", result |-> [message |-> "?"]],
      [kind |-> "none", result |-> EmptyDict],
      [kind |-> "raise", result |-> EmptyDict] }


(***************************************************************************)
(* pull_data_node                                                           *)
(***************************************************************************)
\* A faulty variant of BorrowerFields: last_name goes to the id of middle_name.
BorrowerFieldsShifted ==
    << KV("first_name", "4000"), KV("middle_name", "4001"), KV("last_name", "4001"),
       KV("email", "1204"), KV("ssn", "65"), KV("date_of_birth", "1402") >>

\* The borrower fields and the Encompass field ids they are mapped to.
BorrowerFields ==
    << KV("first_name", "4000"), KV("middle_name", "4001"), KV("last_name", "4002"),
       KV("email", "1204"), KV("ssn", "65"), KV("date_of_birth", "1402") >>

\* The loaninfo fields and the Encompass field ids they are mapped to.
AddressFields ==
    << KV("address1", "FR0126"), KV("city", "FR0106"), KV("state", "FR0107"),
       KV("zip_code", "FR0108") >>

\* A faulty variant of FindMain: the loop does not stop at the first flagged
\* entry, the last one is kept.
FindMainLast(items, i) ==
    LET flagged == {j \in i..Len(items) :
                       items[j].t = "dict"
                          /\ Truthy(PyGet(items[j], "main_borrower", JBool(FALSE)))}
    IN IF \E j \in i..Len(items) : items[j].t # "dict" THEN [raised |-> TRUE, idx |-> 0]
       ELSE IF flagged = {} THEN [raised |-> FALSE, idx |-> 0]
       ELSE [raised |-> FALSE, idx |-> CHOOSE j \in flagged : \A k \in flagged : k <= j]

RECURSIVE FindMain(_, _)
\* The loop over borrowers from index i: the index of the first entry whose
\* main_borrower is truthy, 0 when the loop ends without one; raised when an
\* entry reached by the loop has no .get (it is not a dict).
FindMain(items, i) ==
    IF i > Len(items) THEN [raised |-> FALSE, idx |-> 0]
    ELSE IF items[i].t # "dict" THEN [raised |-> TRUE, idx |-> 0]
    ELSE IF Truthy(PyGet(items[i], "main_borrower", JBool(FALSE)))
         THEN [raised |-> FALSE, idx |-> i]
    ELSE FindMain(items, i + 1)

\* A faulty variant of MapFields: a field is copied when its key is there, empty or not.
MapFieldsPresent(d, fields) ==
    LET present == {i \in 1..Len(fields) : PyIn(fields[i].k, d)}
    IN [id \in {fields[i].v : i \in present} |->
            LET i == CHOOSE j \in present : fields[j].v = id
            IN PyGetItem(d, fields[i].k).s]

\* `if d.get(f): field_updates[id] = d[f]` for every [f, id] of fields: the entries written
MapFields(d, fields) ==
    LET present == {i \in 1..Len(fields) : Truthy(PyGet(d, fields[i].k, JNull))}
    IN [id \in {fields[i].v : i \in present} |->
            LET i == CHOOSE j \in present : fields[j].v = id
            IN PyGetItem(d, fields[i].k).s]

\* Two dicts merged: d2's entries win.
DictUpdate(d1, d2) ==
    [k \in DOMAIN d1 \cup DOMAIN d2 |-> IF k \in DOMAIN d2 THEN d2[k] ELSE d1[k]]

\* The body of `if raw_data and "loaninfo" in raw_data` up to the assignment of
\* state.field_updates: [raised, map].
DeriveFieldUpdates(loaninfo) ==
    IF loaninfo.t # "dict" THEN [raised |-> TRUE, map |-> EmptyDict]
    ELSE LET borrowers == PyGet(loaninfo, "borrowers_attributes", JArr(<<>>))
             address == MapFields(loaninfo, AddressFields)
         IN IF ~Truthy(borrowers) THEN [raised |-> FALSE, map |-> address]
            ELSE IF borrowers.t # "list" THEN [raised |-> TRUE, map |-> EmptyDict]
            ELSE LET found == FindMain(borrowers.a, 1)
                     main_borrower ==
                         IF found.idx = 0 THEN borrowers.a[1] ELSE borrowers.a[found.idx]
                 IN IF found.raised THEN [raised |-> TRUE, map |-> EmptyDict]
                    ELSE [raised |-> FALSE,
                          map |-> DictUpdate(MapFields(main_borrower, BorrowerFields), address)]

\* The handler of pull_data_node: except Exception.
PullDataHandler(st) ==
    [st EXCEPT !.current_node = 2, !.status = "Error", !.loan_data = [error |-> "exception"]]

\* A faulty variant of pull_data_node: the derived mapping is merged into
\* the field_updates already there.
pull_data_nodeMerge(st, result) ==
    IF DictGet(result, "success", FALSE)
    THEN LET st1 == [st EXCEPT !.pull_data_result = result, !.loan_data = result]
             raw_data == DictGet(result, "raw", JObj(<<>>))
             ok == [st1 EXCEPT !.status = "Success", !.current_node = 2]
         IN IF ~Truthy(raw_data) THEN ok
            ELSE IF PyInRaises(raw_data) THEN PullDataHandler(st1)
            ELSE IF ~PyIn("loaninfo", raw_data) THEN ok
            ELSE IF PyGetItemRaises(raw_data, "loaninfo") THEN PullDataHandler(st1)
            ELSE LET derived == DeriveFieldUpdates(PyGetItem(raw_data, "loaninfo"))
                 IN IF derived.raised THEN PullDataHandler(st1)
                    ELSE [ok EXCEPT !.field_updates = DictUpdate(st.field_updates, derived.map)]
    ELSE LET error_msg == DictGet(result, "error", "Unknown error")
         IN [st EXCEPT !.status = "Error",
                       !.pull_data_result = [error |-> error_msg],
                       !.loan_data = [error |-> error_msg],
                       !.current_node = 2]

\* pull_data_node after `result = await async_pull_loan_data(...)`
pull_data_node(st, result) ==
    IF DictGet(result, "success", FALSE)
    THEN LET st1 == [st EXCEPT !.pull_data_result = result, !.loan_data = result]
             raw_data == DictGet(result, "raw", JObj(<<>>))
             ok == [st1 EXCEPT !.status = "Success", !.current_node = 2]
         IN IF ~Truthy(raw_data) THEN ok
            ELSE IF PyInRaises(raw_data) THEN PullDataHandler(st1)
            ELSE IF ~PyIn("loaninfo", raw_data) THEN ok
            ELSE IF PyGetItemRaises(raw_data, "loaninfo") THEN PullDataHandler(st1)
            ELSE LET derived == DeriveFieldUpdates(PyGetItem(raw_data, "loaninfo"))
                 IN IF derived.raised THEN PullDataHandler(st1)
                    ELSE [ok EXCEPT !.field_updates = derived.map]
    ELSE LET error_msg == DictGet(result, "error", "Unknown error")
         IN [st EXCEPT !.status = "Error",
                       !.pull_data_result = [error |-> error_msg],
                       !.loan_data = [error |-> error_msg],
                       !.current_node = 2]

(***************************************************************************)
(* push_data_node                                                           *)
(***************************************************************************)
\* A faulty variant of PushDataPayload: field_updates is sent as it is.
PushDataPayloadRaw(st) == st.field_updates

\* field_updates = state.field_updates if state.field_updates else {"4000": "DefaultTestValue"}
PushDataPayload(st) ==
    IF DOMAIN st.field_updates # {} THEN st.field_updates
    ELSE [k \in {"4000"} |-> "DefaultTestValue"]

\* The handler of push_data_node: except Exception.
PushDataHandler(st) ==
    [st EXCEPT !.current_node = 3, !.status = "Error", !.loan_data = [error |-> "exception"]]

\* A faulty variant of push_data_node: the mapping that was sent is stored
\* in field_updates.
push_data_nodeStore(st, result) ==
    IF DictGet(result, "success", FALSE)
    THEN [st EXCEPT !.push_data_result = result,
                    !.loan_data = result,
                    !.field_updates = PushDataPayload(st),
                    !.status = "Success",
                    !.current_node = 4]
    ELSE LET error_msg == DictGet(result, "error", "Unknown error")
         IN [st EXCEPT !.status = "Error",
                       !.push_data_result = [error |-> error_msg],
                       !.loan_data = [error |-> error_msg],
                       !.field_updates = PushDataPayload(st),
                       !.current_node = 4]

\* push_data_node after `result = await async_push_data(...)`
push_data_node(st, result) ==
    IF DictGet(result, "success", FALSE)
    THEN [st EXCEPT !.push_data_result = result,
                    !.loan_data = result,
                    !.status = "Success",
                    !.current_node = 4]
    ELSE LET error_msg == DictGet(result, "error", "Unknown error")
         IN [st EXCEPT !.status = "Error",
                       !.push_data_result = [error |-> error_msg],
                       !.loan_data = [error |-> error_msg],
                       !.current_node = 4]

(***************************************************************************)
(* push_doc_node                                                            *)
(***************************************************************************)
\* doc_ids = [953]  # Fallback document ID
FallbackDocId == 953

\* A faulty variant of CoerceDocId: every entry is passed on as it is.
CoerceDocIdNone(v) == v

\* int(doc_id) if str(doc_id).isdigit() else doc_id
CoerceDocId(v) == IF IsDigitStr(PyStr(v)) THEN JInt(StrToInt(PyStr(v))) ELSE v

\* What `for doc_id in v` iterates over: the items of a list, the keys of a
\* dict, the characters of a str.
PyIterItems(v) ==
    CASE v.t = "list" -> v.a
      [] v.t = "dict" -> [i \in 1..Len(v.o) |-> JStr(v.o[i].k)]
      [] v.t = "str" -> [i \in 1..Len(v.s) |-> JStr(SubSeq(v.s, i, i))]
      [] OTHER -> <<>>

\* The document ids push_doc_node computes: [raised, ids].  json.loads
\* failing gives the string itself as the only id; a decoded value that is
\* not iterable raises TypeError out of the list comprehension.
PushDocIds(document_ids) ==
    IF document_ids = "" THEN [raised |-> FALSE, ids |-> <<JInt(FallbackDocId)>>]
    ELSE LET r == json_loads(document_ids)
         IN IF ~r.ok THEN [raised |-> FALSE, ids |-> <<JStr(document_ids)>>]
            ELSE IF r.v.t \notin {"list", "dict", "str"} THEN [raised |-> TRUE, ids |-> <<>>]
            ELSE [raised |-> FALSE,
                  ids |-> [i \in 1..Len(PyIterItems(r.v)) |-> CoerceDocId(PyIterItems(r.v)[i])]]

\* A faulty variant of PushDocHandler: the handler records the node as completed.
PushDocHandlerDone(st) ==
    [st EXCEPT !.current_node = 5, !.status = "Error", !.loan_data = [error |-> "exception"]]

\* A faulty variant of PushDocHandler: the position of the handler of push_data_node.
PushDocHandlerBack(st) ==
    [st EXCEPT !.current_node = 3, !.status = "Error", !.loan_data = [error |-> "exception"]]

\* The handler of push_doc_node: except Exception.
PushDocHandler(st) ==
    [st EXCEPT !.current_node = 4, !.status = "Error", !.loan_data = [error |-> "exception"]]

\* The logging of the nested fields of a successful result raises: a
\* docrepo_fields, or a submission_result in it, that is truthy and has no .get
PushDocLogRaises(result) ==
    LET docrepo_fields == DictGet(result, "docrepo_fields", JObj(<<>>))
    IN /\ Truthy(docrepo_fields)
       /\ \/ docrepo_fields.t # "dict"
          \/ LET submission_result == PyGet(docrepo_fields, "submission_result", JObj(<<>>))
             IN Truthy(submission_result) /\ submission_result.t # "dict"

\* A faulty variant of push_doc_node: a status "Error" left by an earlier
\* node is kept when the submission succeeds.
push_doc_nodeSticky(st, out) ==
    IF out.kind # "dict" THEN PushDocHandler(st)
    ELSE IF DictGet(out.result, "success", FALSE)
    THEN IF PushDocLogRaises(out.result)
         THEN PushDocHandler([st EXCEPT !.push_doc_result = out.result,
                                        !.loan_data = out.result])
         ELSE [st EXCEPT !.push_doc_result = out.result,
                         !.loan_data = out.result,
                         !.status = IF st.status = "Error" THEN "Error" ELSE "Success",
                         !.current_node = 5]
    ELSE LET error_msg == DictGet(out.result, "error", "Unknown error")
         IN [st EXCEPT !.status = "Error",
                       !.push_doc_result = [error |-> error_msg],
                       !.loan_data = [error |-> error_msg],
                       !.current_node = 5]

\* push_doc_node after `result = await asyncio.to_thread(doc_agent.ESFuse.push_doc, ...)`;
\* out is what the call did
push_doc_node(st, out) ==
    IF out.kind # "dict" THEN PushDocHandler(st)
    ELSE IF DictGet(out.result, "success", FALSE)
    THEN IF PushDocLogRaises(out.result)
         THEN PushDocHandler([st EXCEPT !.push_doc_result = out.result,
                                        !.loan_data = out.result])
         ELSE [st EXCEPT !.push_doc_result = out.result,
                         !.loan_data = out.result,
                         !.status = "Success",
                         !.current_node = 5]
    ELSE LET error_msg == DictGet(out.result, "error", "Unknown error")
         IN [st EXCEPT !.status = "Error",
                       !.push_doc_result = [error |-> error_msg],
                       !.loan_data = [error |-> error_msg],
                       !.current_node = 5]

(***************************************************************************)
(* workflow_summary_node                                                    *)
(***************************************************************************)
\* The values str(datetime.datetime.now()) takes in the model.
Timestamps == {"2025-01-01 00:00:00", "2025-01-01 00:00:01"}

\* len([doc for doc in docs if doc.get("success", False)])
CountSuccess(docs) == Cardinality({i \in 1..Len(docs) : DictGet(docs[i], "success", FALSE)})

\* The summary dict built in the try block.
BuildSummary(st, now) ==
    [ workflow_status |-> st.status,
      total_nodes_completed |-> st.current_node,
      pull_data_success |->
          IF DOMAIN st.pull_data_result # {} THEN DictGet(st.pull_data_result, "success", FALSE)
          ELSE FALSE,
      pull_doc_success |->
          IF Len(st.pull_doc_results) > 0 THEN CountSuccess(st.pull_doc_results) > 0 ELSE FALSE,
      push_data_success |->
          IF DOMAIN st.push_data_result # {} THEN DictGet(st.push_data_result, "success", FALSE)
          ELSE FALSE,
      push_doc_success |->
          IF DOMAIN st.push_doc_result # {} THEN DictGet(st.push_doc_result, "success", FALSE)
          ELSE FALSE,
      documents_processed |->
          IF Len(st.pull_doc_results) > 0 THEN Len(st.pull_doc_results) ELSE 0,
      successful_documents |->
          IF Len(st.pull_doc_results) > 0 THEN CountSuccess(st.pull_doc_results) ELSE 0,
      failed_documents |->
          IF Len(st.pull_doc_results) > 0
          THEN Len(st.pull_doc_results) - CountSuccess(st.pull_doc_results) ELSE 0,
      timestamp |-> now ]

\* A faulty variant of workflow_summary_node: a summary that was built
\* marks the run as successful.
workflow_summary_nodeStatus(st, now, raised) ==
    IF raised THEN [st EXCEPT !.workflow_summary = [error |-> "exception"]]
    ELSE [st EXCEPT !.workflow_summary = BuildSummary(st, now),
                    !.loan_data = BuildSummary(st, now),
                    !.status = "Success"]

\* workflow_summary_node; raised: an exception is raised while the summary is built
workflow_summary_node(st, now, raised) ==
    IF raised THEN [st EXCEPT !.workflow_summary = [error |-> "exception"]]
    ELSE [st EXCEPT !.workflow_summary = BuildSummary(st, now),
                    !.loan_data = BuildSummary(st, now)]


(***************************************************************************)
(* async_pull_doc_data and pull_doc_node                                    *)
(***************************************************************************)
\* What the exchange with the document API can come to.
DocResponses ==
    { Http("json", 200, JObj(<< KV("pages", JInt(2)) >>), ""),
      Http("notjson", 200, JNull, "%PDF"),
      Http("status", 404, JNull, "missing"),
      Http("exc", 0, JNull, "timeout") }

\* async_pull_doc_data: the result dict for one exchange (the api base of
\* api_url is left out)
async_pull_doc_data(client_id, doc_id, resp) ==
    LET api_url == "/doc?clientId=" \o client_id \o "&docId=" \o doc_id
    IN CASE resp.kind = "json" ->
               [success |-> TRUE, response_type |-> "json", response_data |-> resp.body,
                api_url |-> api_url, client_id |-> client_id, doc_id |-> doc_id]
         [] resp.kind = "notjson" ->
               [success |-> TRUE, response_type |-> "pdf", file_size |-> Len(resp.text),
                api_url |-> api_url, client_id |-> client_id, doc_id |-> doc_id]
         [] resp.kind = "status" ->
               [success |-> FALSE,
                error |-> "API request failed with status " \o ToString(resp.code),
                response_text |-> resp.text, status_code |-> resp.code]
         [] OTHER ->
               [success |-> FALSE, error |-> "Request failed: " \o resp.text]

\* The record pull_doc_node appends for doc_id and the result of its call.
DocRecord(doc_id, result) ==
    IF DictGet(result, "success", FALSE)
    THEN IF result.response_type = "json"
         THEN [doc_id |-> doc_id, response_type |-> result.response_type,
               api_url |-> result.api_url, client_id |-> result.client_id, success |-> TRUE,
               response_data |-> result.response_data]
         ELSE [doc_id |-> doc_id, response_type |-> result.response_type,
               api_url |-> result.api_url, client_id |-> result.client_id, success |-> TRUE,
               file_size |-> result.file_size]
    ELSE [doc_id |-> doc_id, error |-> DictGet(result, "error", "Unknown error"),
          success |-> FALSE]

\* doc_ids = json.loads(state.document_ids) and len(doc_ids): [raised, items].
\* A string that does not decode raises JSONDecodeError, a decoded value
\* without len() raises TypeError; a dict is iterated over its keys and a
\* str over its characters.
PullDocItems(document_ids) ==
    LET r == json_loads(document_ids)
    IN IF ~r.ok THEN [raised |-> TRUE, items |-> <<>>]
       ELSE IF r.v.t \notin {"list", "dict", "str"} THEN [raised |-> TRUE, items |-> <<>>]
       ELSE [raised |-> FALSE, items |-> PyIterItems(r.v)]

\* The results of the calls of the loop, one after the other: resps[i] is
\* what the exchange for items[i] comes to.
PullDocCalls(items, client_id, resps) ==
    [i \in 1..Len(items) |-> async_pull_doc_data(client_id, PyStr(items[i]), resps[i])]

\* A faulty variant of PullDocLoop: a failed pull leaves no record.
PullDocLoopSkipFailed(items, client_id, resps) ==
    LET all == [i \in 1..Len(items) |->
                   DocRecord(items[i], PullDocCalls(items, client_id, resps)[i])]
    IN SelectSeq(all, LAMBDA rec : rec.success)

\* all_documents_data after `for doc_id in doc_ids`
PullDocLoop(items, client_id, resps) ==
    [i \in 1..Len(items) |-> DocRecord(items[i], PullDocCalls(items, client_id, resps)[i])]

\* The handler of pull_doc_node: except Exception.
PullDocHandler(st) ==
    [st EXCEPT !.current_node = 2, !.status = "Error", !.loan_data = [error |-> "exception"]]

\* pull_doc_node; resps is what the exchanges of the loop come to
pull_doc_node(st, resps, now) ==
    IF st.document_ids = ""
    THEN [st EXCEPT !.status = "Error",
                    !.loan_data = [error |-> "No document_ids provided"],
                    !.current_node = 3]
    ELSE LET doc_ids == PullDocItems(st.document_ids)
             all_documents_data == PullDocLoop(doc_ids.items, st.client_id, resps)
             output_data ==
                 [loan_id |-> st.loan_id,
                  client_id |-> st.client_id,
                  task_id |-> st.task_id,
                  status |-> st.status,
                  total_documents |-> Len(doc_ids.items),
                  successful_pulls |-> CountSuccess(all_documents_data),
                  failed_pulls |-> Len(all_documents_data) - CountSuccess(all_documents_data),
                  documents |-> all_documents_data,
                  timestamp |-> now]
         IN IF doc_ids.raised THEN PullDocHandler(st)
            ELSE [st EXCEPT !.pull_doc_results = all_documents_data,
                            !.documents_stored_list = all_documents_data,
                            !.loan_data = output_data,
                            !.status = "Success",
                            !.current_node = 3]

(***************************************************************************)
(* The compiled graph and a run of it.                                      *)
(***************************************************************************)
\* A faulty variant of Edge: pull_data is followed by the pull_doc node.
EdgeThroughPullDoc(n) ==
    CASE n = "__start__" -> "extract_input"
      [] n = "extract_input" -> "pull_data"
      [] n = "pull_data" -> "pull_doc"
      [] n = "pull_doc" -> "push_data"
      [] n = "push_data" -> "push_doc"
      [] n = "push_doc" -> "summary"
      [] n = "summary" -> "__end__"

\* .add_edge(a, b): the node after n
Edge(n) ==
    CASE n = "__start__" -> "extract_input"
      [] n = "extract_input" -> "pull_data"
      [] n = "pull_data" -> "push_data"
      [] n = "push_data" -> "push_doc"
      [] n = "push_doc" -> "summary"
      [] n = "summary" -> "__end__"

\* A faulty variant of NextNode: a node that returns status "Error" ends the run.
NextNodeStopOnError(n, st) ==
    IF st.status = "Error" THEN "__end__"
    ELSE CASE n = "extract_input" -> "pull_data"
           [] n = "pull_data" -> "push_data"
           [] n = "push_data" -> "push_doc"
           [] n = "push_doc" -> "summary"
           [] n = "summary" -> "__end__"

\* A faulty variant of NextNode: a node that ended with status "Error" is run again.
NextNodeRetry(n, st) == IF st.status = "Error" /\ n # "summary" THEN n ELSE Edge(n)

\* The node the engine runs after n has returned st: the edges are unconditional.
NextNode(n, st) == Edge(n)

\* One adapter invocation, as logged in calls.
Call(adapter, client_id, loan_id, payload, doc_ids) ==
    [adapter |-> adapter, client_id |-> client_id, loan_id |-> loan_id,
     payload |-> payload, doc_ids |-> doc_ids]

\* The frame of a node that is not inside a loop of awaits: next is the
\* index of the entry the loop turns to next, inflight the indexes of the
\* calls awaited and not yet returned, resps what the returned calls came to.
IdleFrame == [next |-> 0, inflight |-> {}, resps |-> <<>>]

Init ==
    /\ state \in {NewState(u) : u \in Inputs}
    /\ env \in Envs
    /\ pc = Edge("__start__")
    /\ trace = <<>>
    /\ calls = <<>>
    /\ pre = state
    /\ frame = IdleFrame

\* The engine moves on from the node it has just run.
Advance(node) ==
    /\ pre' = state
    /\ trace' = Append(trace, node)
    /\ pc' = NextNode(node, state')
    /\ UNCHANGED <<env, frame>>

ExtractInput ==
    /\ pc = "extract_input"
    /\ state' = extract_input_fields(state, env)
    /\ UNCHANGED calls
    /\ Advance("extract_input")

PullData ==
    /\ pc = "pull_data"
    /\ \E resp \in LoanResponses :
          state' = pull_data_node(state,
                        async_pull_loan_data(state.client_id, state.loan_id, resp))
    /\ calls' = Append(calls, Call("loan", state.client_id, state.loan_id, EmptyDict, <<>>))
    /\ Advance("pull_data")

PushData ==
    /\ pc = "push_data"
    /\ \E resp \in EncompassResponses :
          state' = push_data_node(state,
                        async_push_data(PushDataPayload(state), state.loan_id, resp))
    /\ calls' = Append(calls,
                    Call("encompass", state.client_id, state.loan_id, PushDataPayload(state), <<>>))
    /\ Advance("push_data")

\* An Exception raised in the try block of push_data_node around the call
\* (async_push_data itself turns every Exception of the exchange into a dict).
PushDataRaises ==
    /\ pc = "push_data"
    /\ state' = PushDataHandler(state)
    /\ calls' = Append(calls,
                    Call("encompass", state.client_id, state.loan_id, PushDataPayload(state), <<>>))
    /\ Advance("push_data")

\* The list comprehension over the decoded document_ids raises: no call is made.
PushDocBadIds ==
    /\ pc = "push_doc"
    /\ PushDocIds(state.document_ids).raised
    /\ state' = PushDocHandler(state)
    /\ UNCHANGED calls
    /\ Advance("push_doc")

PushDoc ==
    /\ pc = "push_doc"
    /\ ~PushDocIds(state.document_ids).raised
    /\ \E out \in SubmissionOutcomes : state' = push_doc_node(state, out)
    /\ calls' = Append(calls,
                    Call("submission", state.client_id, state.loan_id, EmptyDict,
                         PushDocIds(state.document_ids).ids))
    /\ Advance("push_doc")

Summary ==
    /\ pc = "summary"
    /\ \E now \in Timestamps, raised \in BOOLEAN :
          state' = workflow_summary_node(state, now, raised)
    /\ UNCHANGED calls
    /\ Advance("summary")

Next ==
    \/ ExtractInput
    \/ PullData
    \/ PushData
    \/ PushDataRaises
    \/ PushDocBadIds
    \/ PushDoc
    \/ Summary

Spec == Init /\ [][Next]_vars

\* The engine awaits one node after the other until the run is over.
LiveSpec == Spec /\ WF_vars(Next)

(***************************************************************************)
(* One node called on its own, on a State left by earlier work.             *)
(***************************************************************************)
\* How many times in a row extract_input_fields is called on the State it returned.
MaxRepeats == 2

\* A State as constructed, and one that earlier nodes have written to.
PriorStates(user_input, document_ids) ==
    { [NewState(user_input) EXCEPT !.document_ids = document_ids],
      [NewState(user_input) EXCEPT !.document_ids = document_ids,
                                   !.loan_id = "25",
                                   !.client_id = "loan_25",
                                   !.task_id = "t0",
                                   !.status = "Success",
                                   !.current_node = 2,
                                   !.field_updates = [k \in {"4000"} |-> "Old"],
                                   !.loan_data = [error |-> "old"]] }

\* The document_ids a State carries into a node.
HarnessDocIds ==
    { "", DocIdsScenario, DocIdsThree, DocIdsTwice, DocIdsNone, DocIdsMixed, DocIdsText,
      DocIdsNumber, DocIdsObject, InNull, InStrPlain }

\* The nodes NodeSpec calls.
HarnessNodes == {"extract_input", "pull_doc"}

NodeInit ==
    /\ state \in UNION {PriorStates(u, d) : u \in Inputs, d \in HarnessDocIds}
    /\ env \in Envs
    /\ pc \in HarnessNodes
    /\ trace = <<>>
    /\ calls = <<>>
    /\ pre = state
    /\ frame = IdleFrame

\* extract_input_fields called on the State the caller holds.
CallExtractInput ==
    /\ pc = "extract_input"
    /\ Len(trace) < MaxRepeats
    /\ state' = extract_input_fields(state, env)
    /\ pre' = state
    /\ trace' = Append(trace, "extract_input")
    /\ UNCHANGED <<pc, env, calls, frame>>

\* One call of async_pull_doc_data as the log keeps it: the doc_id passed
\* and the result returned.
DocCall(client_id, doc_id, result) ==
    [adapter |-> "doc", client_id |-> client_id, loan_id |-> "", payload |-> EmptyDict,
     doc_ids |-> <<JStr(doc_id)>>, result |-> result]

\* The entries `for doc_id in doc_ids` of pull_doc_node goes through.
LoopItems == PullDocItems(state.document_ids).items

\* pull_doc_node called on the State the caller holds returns without
\* entering the loop: document_ids is empty, or json.loads or len() raises.
PullDocNoLoop ==
    /\ pc = "pull_doc"
    /\ state.document_ids = "" \/ PullDocItems(state.document_ids).raised
    /\ \E now \in Timestamps : state' = pull_doc_node(state, <<>>, now)
    /\ pre' = state
    /\ trace' = Append(trace, "pull_doc")
    /\ pc' = "__end__"
    /\ UNCHANGED <<env, calls, frame>>

\* pull_doc_node reaches `for doc_id in doc_ids`.
PullDocEnterLoop ==
    /\ pc = "pull_doc"
    /\ state.document_ids # ""
    /\ ~PullDocItems(state.document_ids).raised
    /\ pc' = "pull_doc_loop"
    /\ frame' = [next |-> 1, inflight |-> {}, resps |-> <<>>]
    /\ UNCHANGED <<state, env, trace, calls, pre>>

\* A faulty variant of CanStartDocCall: the calls are started without
\* awaiting the one before.
CanStartDocCallAny(fr) == TRUE

\* `result = await async_pull_doc_data(...)` inside the loop: the coroutine
\* is suspended until the call returns, the loop turns to the next entry
\* only then.
CanStartDocCall(fr) == fr.inflight = {}

\* The loop starts the call for its next entry.
PullDocStart ==
    /\ pc = "pull_doc_loop"
    /\ frame.next <= Len(LoopItems)
    /\ CanStartDocCall(frame)
    /\ frame' = [frame EXCEPT !.inflight = @ \cup {frame.next}, !.next = @ + 1]
    /\ UNCHANGED <<state, pc, env, trace, calls, pre>>

\* A call in flight returns its result.
PullDocSettle ==
    /\ pc = "pull_doc_loop"
    /\ \E i \in frame.inflight, resp \in DocResponses :
          /\ frame' = [frame EXCEPT
                          !.inflight = @ \ {i},
                          !.resps = [j \in DOMAIN @ \cup {i} |-> IF j = i THEN resp ELSE @[j]]]
          /\ calls' = Append(calls,
                          DocCall(state.client_id, PyStr(LoopItems[i]),
                                  async_pull_doc_data(state.client_id, PyStr(LoopItems[i]), resp)))
    /\ UNCHANGED <<state, pc, env, trace, pre>>

\* The loop is over: pull_doc_node stores the records and returns.
PullDocReturn ==
    /\ pc = "pull_doc_loop"
    /\ frame.next > Len(LoopItems)
    /\ frame.inflight = {}
    /\ \E now \in Timestamps : state' = pull_doc_node(state, frame.resps, now)
    /\ pre' = state
    /\ trace' = Append(trace, "pull_doc")
    /\ pc' = "__end__"
    /\ frame' = IdleFrame
    /\ UNCHANGED <<env, calls>>

NodeNext ==
    \/ CallExtractInput
    \/ PullDocNoLoop
    \/ PullDocEnterLoop
    \/ PullDocStart
    \/ PullDocSettle
    \/ PullDocReturn

NodeSpec == NodeInit /\ [][NodeNext]_vars


(***************************************************************************)
(* Properties.                                                              *)
(***************************************************************************)
\* The node executed last has been node.
JustRan(node) == Len(trace) > 0 /\ trace[Len(trace)] = node

\* The run is over.
Terminated == pc = "__end__"

\* The adapters invoked so far.
Invoked == {calls[i].adapter : i \in 1..Len(calls)}

\* The path the specification gives for every run.
NodeOrder == <<"extract_input", "pull_data", "push_data", "push_doc", "summary">>

\* C1: under the fairness of the engine, every run (every user_input, every
\* environment, every outcome of the adapters) reaches the end of the graph
\* with the summary node executed and workflow_summary written.
C1_RunReachesSummary ==
    <>(Terminated /\ JustRan("summary") /\ DOMAIN state.workflow_summary # {})

\* C1 witness: a finished run in which the environment is incomplete, the
\* loan pull and the Encompass push failed and push_doc_node ended in its
\* handler, and the summary was still written.
C1_Witness ==
    /\ Terminated
    /\ ValidateRaises(env)
    /\ "error" \in DOMAIN state.pull_data_result
    /\ "error" \in DOMAIN state.push_data_result
    /\ state.current_node = 4
    /\ DOMAIN state.push_doc_result = {}
    /\ "workflow_status" \in DOMAIN state.workflow_summary
    /\ state.workflow_summary.workflow_status = "Error"

\* C2: in every state of a run the nodes executed so far are a prefix of
\* extract_input, pull_data, push_data, push_doc, summary, the engine is
\* about to run the next node of that order whatever the state holds, and
\* once summary has run the run is over and nothing more is executed.
C2_FixedOrder ==
    /\ Len(trace) <= Len(NodeOrder)
    /\ trace = SubSeq(NodeOrder, 1, Len(trace))
    /\ pc = IF Len(trace) < Len(NodeOrder) THEN NodeOrder[Len(trace) + 1] ELSE "__end__"
    /\ Terminated => ~ENABLED Next

\* C2 witness: a finished run whose nodes ran in that order although every
\* stage before the summary reported an error.
C2_Witness ==
    /\ Terminated
    /\ trace = NodeOrder
    /\ state.status = "Error"
    /\ "error" \in DOMAIN state.pull_data_result
    /\ "error" \in DOMAIN state.push_data_result

\* C3 (as claimed): when a required environment variable is missing, no
\* node has executed, the state is the one the run was started with and no
\* adapter has been called.
C3_ConfigFailsFast ==
    ValidateRaises(env) =>
        /\ trace = <<>>
        /\ state = NewState(state.user_input)
        /\ calls = <<>>

\* The scenario of C4: the run was started with the documented user_input
\* and the loan API answered with the borrower Jane Doe.
C4_Scenario ==
    /\ Terminated
    /\ state.user_input = InObjScenario
    /\ "raw" \in DOMAIN state.pull_data_result
    /\ state.pull_data_result.raw = LoanBodyTable[1]

JaneDoeUpdates == [k \in {"4000", "4002"} |-> IF k = "4000" THEN "Jane" ELSE "Doe"]

\* C4 (as claimed): in the scenario, with the environment complete, every
\* adapter of the run succeeding and the summary built, the final status
\* is "Success",
\* workflow_summary.documents_processed is 1 and field_updates is
\* {"4000": "Jane", "4002": "Doe"}.
C4_Original ==
    (/\ C4_Scenario
     /\ ~ValidateRaises(env)
     /\ DictGet(state.push_data_result, "success", FALSE)
     /\ DictGet(state.push_doc_result, "success", FALSE)
     /\ "workflow_status" \in DOMAIN state.workflow_summary) =>
        /\ state.status = "Success"
        /\ DictGet(state.workflow_summary, "documents_processed", -1) = 1
        /\ state.field_updates = JaneDoeUpdates

\* C4 (amended): in the scenario, when the submission adapter reports
\* success and the summary is built, the final status is "Success",
\* field_updates is {"4000": "Jane", "4002": "Doe"}, no document is pulled
\* (the document adapter is not called) and documents_processed is 0.
C4_EndToEnd ==
    (/\ C4_Scenario
     /\ DictGet(state.push_doc_result, "success", FALSE)
     /\ "workflow_status" \in DOMAIN state.workflow_summary) =>
        /\ state.status = "Success"
        /\ state.field_updates = JaneDoeUpdates
        /\ Invoked = {"loan", "encompass", "submission"}
        /\ state.pull_doc_results = <<>>
        /\ state.workflow_summary.documents_processed = 0
        /\ state.workflow_summary.workflow_status = "Success"

\* C4 witness: the scenario with a successful submission and a summary.
C4_Witness ==
    /\ C4_Scenario
    /\ ~ValidateRaises(env)
    /\ state.loan_id = "25"
    /\ DictGet(state.push_doc_result, "success", FALSE)
    /\ "documents_processed" \in DOMAIN state.workflow_summary
    /\ state.workflow_summary.documents_processed = 0
    /\ state.field_updates = JaneDoeUpdates
    /\ state.status = "Success"

\* C5: status is always one of "", "Success", "Error", and it is "" only
\* while no node has run: from the return of extract_input on it is
\* "Success" or "Error".
C5_StatusDomain ==
    /\ state.status \in {"", "Success", "Error"}
    /\ Len(trace) >= 1 => state.status \in {"Success", "Error"}
    /\ Len(trace) = 0 => state.status = ""

\* C5 witness: extract_input has just returned through its exception handler.
C5_Witness ==
    /\ trace = <<"extract_input">>
    /\ ValidateRaises(env)
    /\ state.status = "Error"

\* C6: current_node after a node is never below its value after the node
\* before it (pre holds the state the node was entered with).
C6_CurrentNodeMonotone ==
    Len(trace) >= 1 => state.current_node >= pre.current_node

\* C6 witness: push_doc_node ended in its exception handler after
\* push_data_node had completed, so current_node stayed at 4.
C6_Witness ==
    /\ JustRan("push_doc")
    /\ pre.current_node = 4
    /\ state.current_node = 4
    /\ state.status = "Error"
    /\ DOMAIN state.push_doc_result = {}

\* C7 (as claimed): with the environment complete, extract_input_fields
\* returns status "Success" for every non-empty user_input, and an input
\* that does not decode to an object changes nothing else but current_node.
C7_PermissiveSuccess ==
    (/\ trace = <<"extract_input">>
     /\ ~ValidateRaises(env)
     /\ state.user_input # "") =>
        /\ state.status = "Success"
        /\ (~json_loads(state.user_input).ok \/ json_loads(state.user_input).v.t # "dict")
              => state = [pre EXCEPT !.status = "Success", !.current_node = 1]

\* The fields extract_input_fields fills from the input.
ExtractedFields == RecognizedKeys

\* C8 (as claimed): extract_input_fields returns with current_node 1 on
\* every path, and for an empty user_input it returns status "Error", an
\* error payload in loan_data, and the extracted fields as they were.
C8_EmptyInput ==
    trace = <<"extract_input">> =>
        /\ state.current_node = 1
        /\ state.user_input = "" =>
              /\ state.status = "Error"
              /\ "error" \in DOMAIN state.loan_data
              /\ \A f \in ExtractedFields : state[f] = pre[f]

\* C9 (as claimed): for a user_input that decodes to an object, every one of
\* the six string fields named in it holds str() of the value given (the
\* value itself when it is a string), every one not named is as it was, and
\* the documented input gives status "Success" and loan_id "25".
C9_FieldsCopied ==
    (/\ trace = <<"extract_input">>
     /\ json_loads(state.user_input).ok
     /\ json_loads(state.user_input).v.t = "dict") =>
        LET input_data == json_loads(state.user_input).v
        IN /\ \A i \in 1..Len(ExtractKeys) :
                 LET f == ExtractKeys[i]
                 IN IF PyIn(f, input_data)
                    THEN /\ state[f] = PyStr(PyGetItem(input_data, f))
                         /\ PyGetItem(input_data, f).t = "str"
                               => state[f] = PyGetItem(input_data, f).s
                    ELSE state[f] = pre[f]
           /\ state.user_input = InObjScenario =>
                 /\ state.status = "Success"
                 /\ state.loan_id = "25"
                 /\ state.client_id = "loan_25"
                 /\ state.document_ids = "[953]"

\* Two inputs decode to objects that agree on the recognized keys.
AgreeOnRecognized(u1, u2) ==
    /\ json_loads(u1).ok /\ json_loads(u1).v.t = "dict"
    /\ json_loads(u2).ok /\ json_loads(u2).v.t = "dict"
    /\ \A k \in RecognizedKeys :
          /\ PyIn(k, json_loads(u1).v) <=> PyIn(k, json_loads(u2).v)
          /\ PyIn(k, json_loads(u1).v)
                => PyGetItem(json_loads(u1).v, k) = PyGetItem(json_loads(u2).v, k)

\* C10: extract_input_fields run on an input that agrees with the given one
\* on the recognized keys returns the same state (user_input apart, which
\* it leaves as given), and it never writes pull_data_result,
\* pull_doc_results, push_data_result, push_doc_result, workflow_summary or
\* user_input.
C10_AllowList ==
    trace = <<"extract_input">> =>
        /\ \A u2 \in Inputs :
              AgreeOnRecognized(pre.user_input, u2) =>
                 [extract_input_fields([pre EXCEPT !.user_input = u2], env)
                     EXCEPT !.user_input = state.user_input] = state
        /\ state.user_input = pre.user_input
        /\ state.pull_data_result = pre.pull_data_result
        /\ state.pull_doc_results = pre.pull_doc_results
        /\ state.push_data_result = pre.push_data_result
        /\ state.push_doc_result = pre.push_doc_result
        /\ state.workflow_summary = pre.workflow_summary

\* C10 witness: extract_input_fields has run on the input that carries the
\* unrecognized keys status and user_input beside the documented ones.
C10_Witness ==
    /\ trace = <<"extract_input">>
    /\ state.user_input = InObjExtra
    /\ AgreeOnRecognized(InObjExtra, InObjScenario)
    /\ InObjScenario \in Inputs
    /\ state.status = "Success"
    /\ state.loan_id = "25"

\* C11: extract_input_fields is idempotent: called again on the State it
\* returned, with the same user_input and environment, it returns that
\* State unchanged, field by field.
C11_ExtractIdempotent ==
    (Len(trace) >= 2 /\ trace[Len(trace)] = "extract_input"
                    /\ trace[Len(trace) - 1] = "extract_input")
        => /\ state = pre
           /\ extract_input_fields(state, env) = state

\* C11 witness: the second call in a row has returned, on an input whose
\* fields the first call copied over the ones an earlier run had left.
C11_Witness ==
    /\ trace = <<"extract_input", "extract_input">>
    /\ state.user_input = InObjTyped
    /\ ~ValidateRaises(env)
    /\ state = pre
    /\ state.loan_id = "25"
    /\ state.task_id = "t1"
    /\ state.field_updates = [k \in {"4000", "9999"} |-> IF k = "4000" THEN "User" ELSE "7"]

\* The ten Encompass field ids of the mapping: [src, field, id], src "b" for
\* a field of the main borrower and "l" for a field of the loan-info.
FieldTable ==
    << <<"b", "first_name", "4000">>, <<"b", "middle_name", "4001">>,
       <<"b", "last_name", "4002">>, <<"b", "email", "1204">>, <<"b", "ssn", "65">>,
       <<"b", "date_of_birth", "1402">>, <<"l", "address1", "FR0126">>,
       <<"l", "city", "FR0106">>, <<"l", "state", "FR0107">>, <<"l", "zip_code", "FR0108">> >>

FieldIds == {FieldTable[i][3] : i \in 1..Len(FieldTable)}

\* The object d has field f and its value is not empty.
PresentNonEmpty(d, f) ==
    \E i \in 1..Len(d.o) :
        /\ d.o[i].k = f
        /\ \A j \in (i + 1)..Len(d.o) : d.o[j].k # f
        /\ d.o[i].v \notin {JStr(""), JNull}

\* pull_data_node has just derived a mapping: the pull succeeded, the raw
\* payload is an object with a loan-info, and no exception was raised.
MappingDerived ==
    /\ JustRan("pull_data")
    /\ state.status = "Success"
    /\ DictGet(state.pull_data_result, "success", FALSE)
    /\ state.pull_data_result.raw.t = "dict"
    /\ PyIn("loaninfo", state.pull_data_result.raw)

\* The loan-info of the payload just pulled.
PulledLoanInfo == PyGetItem(state.pull_data_result.raw, "loaninfo")

\* The borrower list of a loan-info, <<>> when it has none.
BorrowersOf(loaninfo) ==
    IF PyIn("borrowers_attributes", loaninfo)
          /\ PyGetItem(loaninfo, "borrowers_attributes").t = "list"
    THEN PyGetItem(loaninfo, "borrowers_attributes").a
    ELSE <<>>

\* The main borrower of a non-empty list: the first entry flagged
\* main_borrower, the first entry when none is flagged.
MainBorrowerOf(borrowers) ==
    LET flagged == {i \in 1..Len(borrowers) :
                       \E j \in 1..Len(borrowers[i].o) :
                           borrowers[i].o[j] = KV("main_borrower", JBool(TRUE))}
    IN IF flagged = {} THEN borrowers[1]
       ELSE borrowers[CHOOSE i \in flagged : \A j \in flagged : i <= j]

\* The value the mapping is to carry under FieldTable[i], "" for no entry.
ExpectedEntry(loaninfo, i) ==
    LET src == IF FieldTable[i][1] = "l" THEN loaninfo
               ELSE IF BorrowersOf(loaninfo) = <<>> THEN JObj(<<>>)
               ELSE MainBorrowerOf(BorrowersOf(loaninfo))
    IN IF PresentNonEmpty(src, FieldTable[i][2]) THEN PyGetItem(src, FieldTable[i][2]).s
       ELSE ""

\* C12: the mapping pull_data_node derives has an entry for a field id
\* exactly when the source field (of the main borrower, or of the loan-info
\* for the address block) is present and non-empty, and the entry is that
\* value; its keys are among the ten ids of the table; no value is empty;
\* a borrower with only first_name and ssn and no address gives exactly
\* the keys "4000" and "65".
C12_DerivedMapping ==
    MappingDerived =>
        /\ DOMAIN state.field_updates \subseteq FieldIds
        /\ \A k \in DOMAIN state.field_updates : state.field_updates[k] # ""
        /\ \A i \in 1..Len(FieldTable) :
              /\ FieldTable[i][3] \in DOMAIN state.field_updates
                    <=> ExpectedEntry(PulledLoanInfo, i) # ""
              /\ FieldTable[i][3] \in DOMAIN state.field_updates
                    => state.field_updates[FieldTable[i][3]] = ExpectedEntry(PulledLoanInfo, i)
        /\ ({i \in 1..Len(FieldTable) : ExpectedEntry(PulledLoanInfo, i) # ""} = {1, 5})
              => DOMAIN state.field_updates = {"4000", "65"}

\* C12 witness: a mapping derived from a payload whose first borrower (none
\* is flagged) has first_name and ssn only, and that has no address.
C12_Witness ==
    /\ MappingDerived
    /\ PulledLoanInfo
          = JObj(<< KV("borrowers_attributes", JArr(<<
                       Borrower(<< KV("first_name", JStr("Ann")), KV("ssn", JStr("111-22-3333")) >>),
                       Borrower(<< KV("first_name", JStr("Bob")), KV("last_name", JStr("Zed")),
                                   KV("email", JStr("bob@x.io")) >>) >>)) >>)
    /\ state.field_updates
          = [k \in {"4000", "65"} |-> IF k = "4000" THEN "Ann" ELSE "111-22-3333"]

\* The mapping the table gives for a loan-info.
ExpectedMapping(loaninfo) ==
    LET emitted == {i \in 1..Len(FieldTable) : ExpectedEntry(loaninfo, i) # ""}
    IN [id \in {FieldTable[i][3] : i \in emitted} |->
           ExpectedEntry(loaninfo, CHOOSE i \in emitted : FieldTable[i][3] = id)]

\* The loan pull has just succeeded with a payload that is an object holding
\* a loan-info object.
PulledLoanInfoObject ==
    /\ JustRan("pull_data")
    /\ DictGet(state.pull_data_result, "success", FALSE)
    /\ state.pull_data_result.raw.t = "dict"
    /\ PyIn("loaninfo", state.pull_data_result.raw)
    /\ PulledLoanInfo.t = "dict"

PullDocRan == trace = <<"pull_doc">>

\* A document_ids that is empty or does not decode as a JSON array.
NotAnIdSequence(document_ids) ==
    \/ document_ids = ""
    \/ ~json_loads(document_ids).ok
    \/ json_loads(document_ids).v.t # "list"

\* C14: for every document_ids that is empty or does not decode as an
\* ordered sequence of identifiers (malformed JSON, or JSON that is not an
\* array), pull_doc_node sets status "Error", calls the document adapter not
\* once and leaves pull_doc_results empty.
C14_BadDocumentIds ==
    (PullDocRan /\ NotAnIdSequence(pre.document_ids)) =>
        /\ state.status = "Error"
        /\ calls = <<>>
        /\ state.pull_doc_results = <<>>

\* The adapter call logged at position i of calls succeeded.
DocCallSucceeded(i) == DictGet(calls[i].result, "success", FALSE)

\* C15: after pull_doc_node on a document_ids that decodes to a sequence of
\* length n, pull_doc_results has n records, record i carries the i-th
\* identifier and success is true exactly when the call for that identifier
\* (the i-th call, made with the identifier as a string) succeeded; nothing
\* is reordered or dropped; the stored counts of successful and failed
\* pulls add up to the total n; [101, 102, 103] with only the call for 102
\* failing gives success(101), error(102), success(103).
C15_ResultsInOrder ==
    (PullDocRan /\ ~NotAnIdSequence(pre.document_ids)) =>
        LET ids == json_loads(pre.document_ids).v.a
            n == Len(ids)
            results == state.pull_doc_results
        IN /\ Len(results) = n
           /\ Len(calls) = n
           /\ \A i \in 1..n :
                 /\ results[i].doc_id = ids[i]
                 /\ calls[i].adapter = "doc"
                 /\ calls[i].doc_ids = <<JStr(PyStr(ids[i]))>>
                 /\ results[i].success = DocCallSucceeded(i)
                 /\ ~results[i].success => "error" \in DOMAIN results[i]
           /\ state.loan_data.total_documents = n
           /\ state.loan_data.successful_pulls
                 = Cardinality({i \in 1..n : DocCallSucceeded(i)})
           /\ state.loan_data.successful_pulls + state.loan_data.failed_pulls = n
           /\ state.loan_data.documents = results
           /\ (pre.document_ids = DocIdsThree
                  /\ DocCallSucceeded(1) /\ ~DocCallSucceeded(2) /\ DocCallSucceeded(3))
                 => /\ [i \in 1..3 |-> results[i].doc_id] = <<JInt(101), JInt(102), JInt(103)>>
                    /\ [i \in 1..3 |-> results[i].success] = <<TRUE, FALSE, TRUE>>

\* C15 witness: [101, 102, 103] pulled with only the call for 102 failing.
C15_Witness ==
    /\ PullDocRan
    /\ pre.document_ids = DocIdsThree
    /\ Len(calls) = 3
    /\ DocCallSucceeded(1) /\ ~DocCallSucceeded(2) /\ DocCallSucceeded(3)
    /\ Len(state.pull_doc_results) = 3
    /\ state.pull_doc_results[2] = [doc_id |-> JInt(102),
                                    error |-> "API request failed with status 404",
                                    success |-> FALSE]
    /\ state.loan_data.successful_pulls = 2
    /\ state.loan_data.failed_pulls = 1

\* The calls made to one adapter so far, in order.
CallsTo(adapter) == SelectSeq(calls, LAMBDA c : c.adapter = adapter)

\* C16: the mapping push_data_node sends to the Encompass adapter is never
\* empty: it is {"4000": "DefaultTestValue"} when field_updates is empty on
\* entry and field_updates otherwise; in either case exactly one POST is
\* issued, for the loan_id of the State.
C16_PayloadNeverEmpty ==
    JustRan("push_data") =>
        /\ Len(CallsTo("encompass")) = 1
        /\ calls[Len(calls)].adapter = "encompass"
        /\ calls[Len(calls)].loan_id = pre.loan_id
        /\ DOMAIN calls[Len(calls)].payload # {}
        /\ calls[Len(calls)].payload
              = IF pre.field_updates = EmptyDict
                THEN [k \in {"4000"} |-> "DefaultTestValue"]
                ELSE pre.field_updates

\* C16 witness: push_data_node entered with an empty field_updates has
\* posted the placeholder and the adapter reported success.
C16_Witness ==
    /\ JustRan("push_data")
    /\ pre.field_updates = EmptyDict
    /\ Len(CallsTo("encompass")) = 1
    /\ CallsTo("encompass")[1].payload = [k \in {"4000"} |-> "DefaultTestValue"]
    /\ DictGet(state.push_data_result, "success", FALSE)
    /\ state.status = "Success"

\* A string entry that is made of decimal digits only.
NumericLooking(v) ==
    /\ v.t = "str"
    /\ v.s # ""
    /\ \A i \in 1..Len(v.s) :
          SubSeq(v.s, i, i) \in {"0", "1", "2", "3", "4", "5", "6", "7", "8", "9"}

\* A decoded sequence with its numeric-looking string entries as integers.
CoercedSequence(ids) ==
    [i \in 1..Len(ids) |-> IF NumericLooking(ids[i]) THEN JInt(StrToInt(ids[i].s)) ELSE ids[i]]

\* push_doc_node has just called the submission adapter, once, with ids.
SubmittedWith(ids) ==
    /\ Len(CallsTo("submission")) = 1
    /\ calls[Len(calls)].adapter = "submission"
    /\ calls[Len(calls)].doc_ids = ids

C18_SummaryFrame ==
    JustRan("summary") =>
        /\ state.status = pre.status
        /\ state.current_node = pre.current_node
        /\ state.field_updates = pre.field_updates
        /\ state.pull_data_result = pre.pull_data_result
        /\ state.pull_doc_results = pre.pull_doc_results
        /\ state.push_data_result = pre.push_data_result
        /\ state.push_doc_result = pre.push_doc_result
        /\ \/ DOMAIN state.workflow_summary = {"error"}
           \/ state.workflow_summary.workflow_status = pre.status

\* C18 witness: a summary built at the end of a run whose submission was
\* rejected: status is still "Error".
C18_Witness ==
    /\ JustRan("summary")
    /\ pre.status = "Error"
    /\ "error" \in DOMAIN pre.push_doc_result
    /\ "workflow_status" \in DOMAIN state.workflow_summary
    /\ state.workflow_summary.workflow_status = "Error"
    /\ state.status = "Error"

\* The node that ran last ended in failure and the result field of its
\* stage holds an error payload.
StageErrorStored(node, field) ==
    (JustRan(node) /\ state.status = "Error") => "error" \in DOMAIN state[field]

\* C19: whenever a stage fails (the adapter reports failure, or the node
\* catches an exception), the node sets status "Error" and stores an error
\* payload in the result field of that stage: pull_data_result for
\* pull_data, push_data_result for push_data, push_doc_result for push_doc.
C19_StageErrorPayload ==
    /\ StageErrorStored("pull_data", "pull_data_result")
    /\ StageErrorStored("push_data", "push_data_result")
    /\ StageErrorStored("push_doc", "push_doc_result")

\* C20: in one run the loan adapter, the Encompass adapter and the
\* submission adapter are each called at most once, whatever the calls
\* come to: a failed call is not repeated.
C20_NoRetries ==
    \A adapter \in {"loan", "encompass", "submission"} : Len(CallsTo(adapter)) <= 1

\* C20 witness: a run is over in which every adapter was called once and
\* every call failed.
C20_Witness ==
    /\ Terminated
    /\ [i \in 1..Len(calls) |-> calls[i].adapter] = <<"loan", "encompass", "submission">>
    /\ "error" \in DOMAIN state.pull_data_result
    /\ "error" \in DOMAIN state.push_data_result
    /\ "error" \in DOMAIN state.push_doc_result

\* C21: current_node advances in the push nodes whatever the outcome: on
\* return from push_data_node, and on return from push_doc_node, it is
\* strictly greater than on entry, whether the node succeeded, the adapter
\* reported failure or the node caught an exception.
C21_PushNodesAdvance ==
    (JustRan("push_data") \/ JustRan("push_doc")) => state.current_node > pre.current_node

\* The rows of FieldTable that are fields of the main borrower.
BorrowerRows == {i \in 1..Len(FieldTable) : FieldTable[i][1] = "b"}

\* The entry of a borrower list is flagged as main borrower.
Flagged(borrower) ==
    \E j \in 1..Len(borrower.o) : borrower.o[j] = KV("main_borrower", JBool(TRUE))

\* C22: for every non-empty borrower list, the borrower whose fields
\* pull_data_node maps is the first entry flagged as main borrower, and the
\* first entry of the list when none is flagged: every borrower field of
\* the mapping is a non-empty field of that entry with its value, and no
\* field of another entry is in the mapping.
C22_MainBorrower ==
    (MappingDerived /\ BorrowersOf(PulledLoanInfo) # <<>>) =>
        LET borrowers == BorrowersOf(PulledLoanInfo)
            main == IF \E i \in 1..Len(borrowers) : Flagged(borrowers[i])
                    THEN CHOOSE i \in 1..Len(borrowers) :
                            /\ Flagged(borrowers[i])
                            /\ \A j \in 1..(i - 1) : ~Flagged(borrowers[j])
                    ELSE 1
        IN \A r \in BorrowerRows :
              LET field == FieldTable[r][2]
                  id == FieldTable[r][3]
              IN /\ id \in DOMAIN state.field_updates
                       <=> PresentNonEmpty(borrowers[main], field)
                 /\ id \in DOMAIN state.field_updates
                       => state.field_updates[id] = PyGetItem(borrowers[main], field).s

\* C22 witness: of three borrowers the second and the third are flagged,
\* and the mapping holds the names of the second and neither the email of
\* the first nor the ssn of the third.
C22_Witness ==
    /\ MappingDerived
    /\ Len(BorrowersOf(PulledLoanInfo)) = 3
    /\ ~Flagged(BorrowersOf(PulledLoanInfo)[1])
    /\ Flagged(BorrowersOf(PulledLoanInfo)[2])
    /\ Flagged(BorrowersOf(PulledLoanInfo)[3])
    /\ state.field_updates = [k \in {"4000", "4002"} |-> IF k = "4000" THEN "Bea" ELSE "Bee"]

\* C23: pull_doc_node makes its adapter calls one at a time, in the order
\* of the input: while the loop runs at most one call is in flight, the call
\* for entry N+1 is started only when the calls for entries 1..N have all
\* returned their record, and the calls returned so far are those of the
\* first entries, in order.
C23_OneAtATime ==
    pc = "pull_doc_loop" =>
        /\ Cardinality(frame.inflight) <= 1
        /\ \A i \in frame.inflight :
              /\ i = frame.next - 1
              /\ DOMAIN frame.resps = 1..(i - 1)
        /\ frame.inflight = {} => DOMAIN frame.resps = 1..(frame.next - 1)
        /\ Len(calls) = Cardinality(DOMAIN frame.resps)
        /\ \A k \in 1..Len(calls) :
              /\ calls[k].adapter = "doc"
              /\ calls[k].doc_ids = <<JStr(PyStr(LoopItems[k]))>>

\* C23 witness: of [101, 102, 103] the call for 101 has returned, the call
\* for 102 is in flight and the call for 103 has not been started.
C23_Witness ==
    /\ pc = "pull_doc_loop"
    /\ state.document_ids = DocIdsThree
    /\ frame.inflight = {2}
    /\ frame.next = 3
    /\ Len(calls) = 1
    /\ calls[1].doc_ids = <<JStr("101")>>

\* C24: push_doc_node validates its own input: when it runs with loan_id
\* empty it records status "Error" and never "Success".
C24_EmptyLoanIdRejected ==
    (JustRan("push_doc") /\ pre.loan_id = "") => state.status = "Error"

\* The submission adapter returned a result whose success flag is true.
SubmissionSucceeded == DictGet(state.push_doc_result, "success", FALSE)

UserFieldUpdates ==
    IF ValidateRaises(env) THEN EmptyDict
    ELSE CASE state.user_input = InObjTyped ->
                 [k \in {"4000", "9999"} |-> IF k = "4000" THEN "User" ELSE "7"]
           [] state.user_input = InObjDocText -> [k \in {"65"} |-> "123"]
           [] OTHER -> EmptyDict

\* The loan pull derived no mapping: the adapter call failed, or its
\* payload has no loan-info.
NoMappingDerived ==
    \/ ~DictGet(state.pull_data_result, "success", FALSE)
    \/ state.pull_data_result.raw.t # "dict"
    \/ ~PyIn("loaninfo", state.pull_data_result.raw)

\* C26: pull_data_node leaves field_updates as it was whenever it derives
\* no mapping (the adapter call fails, the payload has no loan-info, or the
\* derivation raises); after a pull that failed or had no loan-info,
\* push_data_node sends exactly the field_updates extraction left (the
\* placeholder when there are none); and push_data_node never changes
\* field_updates: the placeholder is sent and not stored.
C26_FieldUpdatesFrame ==
    /\ (JustRan("pull_data") /\ ~MappingDerived) =>
          /\ state.field_updates = pre.field_updates
          /\ NoMappingDerived => state.field_updates = UserFieldUpdates
    /\ JustRan("push_data") =>
          /\ state.field_updates = pre.field_updates
          /\ NoMappingDerived =>
                /\ state.field_updates = UserFieldUpdates
                /\ calls[Len(calls)].payload
                      = IF UserFieldUpdates = EmptyDict
                        THEN [k \in {"4000"} |-> "DefaultTestValue"]
                        ELSE UserFieldUpdates

\* C26 witness: the loan pull failed, push_data_node has sent the entry the
\* user supplied, and field_updates still is that entry.
C26_Witness ==
    /\ JustRan("push_data")
    /\ state.user_input = InObjDocText
    /\ "error" \in DOMAIN state.pull_data_result
    /\ calls[Len(calls)].adapter = "encompass"
    /\ calls[Len(calls)].payload = [k \in {"65"} |-> "123"]
    /\ state.field_updates = [k \in {"65"} |-> "123"]

\* push_doc_node ended in its handler: it stored no result of its own, or
\* it stored a successful one and still recorded "Error".
PushDocCaught ==
    \/ state.push_doc_result = EmptyDict
    \/ SubmissionSucceeded /\ state.status = "Error"

\* C27: at the end of every run of the compiled graph current_node is 4 or
\* 5, and it is 5 exactly when push_doc_node returned without a caught
\* exception; the summary that was built holds that value as
\* total_nodes_completed and the final status as workflow_status, however
\* many of the earlier stages failed.
C27_FinalPosition ==
    Terminated =>
        /\ state.current_node \in {4, 5}
        /\ state.current_node = 5 <=> ~PushDocCaught
        /\ \/ DOMAIN state.workflow_summary = {"error"}
           \/ /\ state.workflow_summary.total_nodes_completed = state.current_node
              /\ state.workflow_summary.workflow_status = state.status

\* C27 witness: a run is over whose loan pull and Encompass push succeeded
\* and whose submission raised: current_node is 4 and the summary says so.
C27_Witness ==
    /\ Terminated
    /\ DictGet(state.pull_data_result, "success", FALSE)
    /\ DictGet(state.push_data_result, "success", FALSE)
    /\ PushDocCaught
    /\ Len(CallsTo("submission")) = 1
    /\ state.current_node = 4
    /\ "total_nodes_completed" \in DOMAIN state.workflow_summary
    /\ state.workflow_summary.total_nodes_completed = 4
    /\ state.workflow_summary.workflow_status = "Error"

====
